---------------------------- MODULE Spec2Model ----------------------------
(***************************************************************************)
(* Model of TaigiCC's Converter (src/main.py): the construction of the two *)
(* directional indexes from a dictionary payload, the scorer, the search   *)
(* for the best match at a scan position and the greedy conversion loop.   *)
(*                                                                         *)
(* Strings are sequences of one-character strings.  Weights and scores are *)
(* integers counting tenths: the weight 5.0 is 50, the length bonus        *)
(* len * 0.1 is len.  For the weights of EntryPool (-1.0, 0.0, 0.1, 1.0,   *)
(* 5.0) and surface lengths up to 5 the order and the equality of the      *)
(* IEEE-754 double results of len * 0.1 + weight are exactly those of the  *)
(* integers len + 10 * weight, so the comparisons of find_best_match are   *)
(* the ones the code makes on these inputs.                                *)
(***************************************************************************)
EXTENDS Integers, Sequences, FiniteSets, TLC

\* Longest input text.
MaxLen == 3
\* Longest entries list of a payload.
MaxEntries == 2
\* Longest input text of the runs with two concurrent convert calls.
MaxConcLen == 2

\* Characters of the input texts.
Chars == {"a", "b"}

\* All strings over cs of length at most n.
StringsUpTo(cs, n) == UNION {[1..k -> cs] : k \in 0..n}

Texts == StringsUpTo(Chars, MaxLen)

ConcTexts == StringsUpTo(Chars, MaxConcLen)

\* The modes handed to convert: the two recognised ones and one that is not.
Modes == {"t2c", "c2t", "x2y"}

\* The entries a payload is made of.  A record lacks the fields its JSON
\* object lacks: tw is '台文', cn is '華文', weight is '權重' (in tenths).
EntryPool ==
    { [tw |-> <<"a">>, cn |-> <<"X">>],
      [tw |-> <<"a">>, cn |-> <<"Y">>, weight |-> 0],
      [tw |-> <<"a", "b">>, cn |-> <<"X">>, weight |-> 10],
      [tw |-> <<"a">>, cn |-> <<"Y">>, weight |-> 50],
      [tw |-> <<"b">>, cn |-> <<>>, weight |-> -10],
      [tw |-> <<"X">>, cn |-> <<"b">>, weight |-> 1],
      [tw |-> <<"Y", "Y">>, cn |-> <<"b", "a">>],
      [tw |-> <<"a">>],
      [cn |-> <<"X">>, weight |-> 0] }

EntryLists == UNION {[1..n -> EntryPool] : n \in 0..MaxEntries}

\* The payloads json.load may return: with or without an 'entries' list.
Payloads == {[dict_version |-> 1]} \cup {[entries |-> es] : es \in EntryLists}

\* The payloads of the runs with fairness and of those with two concurrent
\* convert calls.
SmallPayloads ==
    { [dict_version |-> 1],
      [entries |-> << [tw |-> <<"a">>] >>],
      [entries |-> << [tw |-> <<"a">>, cn |-> <<"X">>],
                      [tw |-> <<"a", "b">>, cn |-> <<"b">>, weight |-> 10] >>],
      [entries |-> << [tw |-> <<"b">>, cn |-> <<>>, weight |-> -10],
                      [tw |-> <<"X">>, cn |-> <<"b">>, weight |-> 1] >>] }

\* The convert calls: one in the sequential runs, two in the concurrent ones.
Calls == {"c1", "c2"}

SeqCalls == {"c1"}

VARIABLES
    data,          \* the payload json.load returned
    dict_version,  \* self.dict_version
    entries,       \* self.entries
    tw_to_zh,      \* self.tw_to_zh: key -> sequence of <<replacement, weight>>
    zh_to_tw,      \* self.zh_to_tw
    store,         \* __init__: "building", "ready" (returned), "failed" (KeyError)
    idx,           \* __init__: the entry the for loop is at (1-based)
    pc,            \* per call: "idle", "loop", "done", "error" (ValueError)
    text,          \* per call: the text argument
    mode,          \* per call: the mode argument
    pos,           \* per call: the cursor
    result,        \* per call: the list of appended pieces
    ret,           \* per call: the returned string, if any
    branch,        \* per call: the branch the last loop iteration took
    spans          \* per call: <<start, length>> of the input consumed per iteration

storeVars == <<data, dict_version, entries, tw_to_zh, zh_to_tw, store, idx>>

callVars == <<pc, text, mode, pos, result, ret, branch, spans>>

vars == <<data, dict_version, entries, tw_to_zh, zh_to_tw, store, idx,
          pc, text, mode, pos, result, ret, branch, spans>>

\* Python's None and a present value.
None == [some |-> FALSE, val |-> <<>>]

Some(v) == [some |-> TRUE, val |-> v]

\* dict.get(key, default)
Get(d, key, default) == IF key \in DOMAIN d THEN d[key] ELSE default

-----------------------------------------------------------------------------
(* Converter.__init__ *)

\* IndexInsert with index[k] = [pair] for the append.
IndexInsertOverwrite(index, k, pair) ==
    IF k \in DOMAIN index
    THEN [index EXCEPT ![k] = <<pair>>]
    ELSE index @@ (k :> <<pair>>)

\* if k not in index: index[k] = []; index[k].append(pair)
IndexInsert(index, k, pair) ==
    IF k \in DOMAIN index
    THEN [index EXCEPT ![k] = Append(@, pair)]
    ELSE index @@ (k :> <<pair>>)

\* EntryWeight with the default 1.0 for 0.0.
EntryWeightOne(entry) == Get(entry, "weight", 10)

\* entry.get('權重', 0.0)
EntryWeight(entry) == Get(entry, "weight", 0)

\* An entry on which entry['台文'] and entry['華文'] do not raise.
WellFormed(entry) == "tw" \in DOMAIN entry /\ "cn" \in DOMAIN entry

\* The body of the for loop on one entry, on the pair of indexes.
InsertEntry(fwd, rev, entry) ==
    [fwd |-> IndexInsert(fwd, entry.tw, <<entry.cn, EntryWeight(entry)>>),
     rev |-> IndexInsert(rev, entry.cn, <<entry.tw, EntryWeight(entry)>>)]

\* The state once json.load has returned and lines 15-19 have run.
StoreInit(payloads) ==
    /\ data \in payloads
    /\ dict_version = Get(data, "dict_version", 0)
    /\ entries = Get(data, "entries", <<>>)
    /\ tw_to_zh = <<>>
    /\ zh_to_tw = <<>>
    /\ store = "building"
    /\ idx = 1

\* InitEntry with a malformed entry skipped instead of raising.
InitEntrySkip ==
    /\ store = "building"
    /\ idx <= Len(entries)
    /\ IF WellFormed(entries[idx])
       THEN LET ins == InsertEntry(tw_to_zh, zh_to_tw, entries[idx])
            IN /\ tw_to_zh' = ins.fwd
               /\ zh_to_tw' = ins.rev
       ELSE UNCHANGED <<tw_to_zh, zh_to_tw>>
    /\ idx' = idx + 1
    /\ UNCHANGED <<data, dict_version, entries, store>>
    /\ UNCHANGED callVars

\* One iteration of the for loop: the entry is inserted in both indexes, or
\* the lookup of a missing text field raises KeyError out of __init__.
InitEntry ==
    /\ store = "building"
    /\ idx <= Len(entries)
    /\ IF WellFormed(entries[idx])
       THEN LET ins == InsertEntry(tw_to_zh, zh_to_tw, entries[idx])
            IN /\ tw_to_zh' = ins.fwd
               /\ zh_to_tw' = ins.rev
               /\ idx' = idx + 1
               /\ store' = store
       ELSE /\ store' = "failed"
            /\ UNCHANGED <<tw_to_zh, zh_to_tw, idx>>
    /\ UNCHANGED <<data, dict_version, entries>>
    /\ UNCHANGED callVars

\* The for loop is exhausted: __init__ returns and the caller holds the store.
InitReturn ==
    /\ store = "building"
    /\ idx > Len(entries)
    /\ store' = "ready"
    /\ UNCHANGED <<data, dict_version, entries, tw_to_zh, zh_to_tw, idx>>
    /\ UNCHANGED callVars

\* The pair of indexes the for loop builds from entry i of es on, es being
\* well-formed.
RECURSIVE BuildFrom(_, _, _, _)
BuildFrom(fwd, rev, es, i) ==
    IF i > Len(es)
    THEN [fwd |-> fwd, rev |-> rev]
    ELSE LET ins == InsertEntry(fwd, rev, es[i])
         IN BuildFrom(ins.fwd, ins.rev, es, i + 1)

-----------------------------------------------------------------------------
(* Converter.calculate_weight and Converter.find_best_match *)

\* NegInf with best_weight starting at 0.0 instead of float('-inf').
ZeroInit == [inf |-> FALSE, v |-> 0]

\* float('-inf'), the initial best_weight.
NegInf == [inf |-> TRUE, v |-> 0]

\* A finite score.
Fin(x) == [inf |-> FALSE, v |-> x]

\* Greater with >= for >: a later candidate of equal score replaces the best.
GreaterOrEqual(total_weight, best_weight) ==
    best_weight.inf \/ total_weight >= best_weight.v

\* total_weight > best_weight, total_weight finite.
Greater(total_weight, best_weight) ==
    best_weight.inf \/ total_weight > best_weight.v

\* len(text) * 0.1 + base_weight, in tenths.
calculate_weight(t, base_weight) == Len(t) + base_weight

\* The four locals of find_best_match before its loop.
InitBest ==
    [match |-> None, replacement |-> None, weight |-> NegInf, length |-> 0]

\* The inner for loop over dictionary[substring], from alternative j on.
RECURSIVE ScanCandidates(_, _, _, _, _)
ScanCandidates(best, substring, length, cands, j) ==
    IF j > Len(cands)
    THEN best
    ELSE LET total_weight == calculate_weight(substring, cands[j][2])
             nbest == IF Greater(total_weight, best.weight)
                      THEN [match |-> Some(substring),
                            replacement |-> Some(cands[j][1]),
                            weight |-> Fin(total_weight),
                            length |-> length]
                      ELSE best
         IN ScanCandidates(nbest, substring, length, cands, j + 1)

\* The outer for loop over the lengths length..last.
RECURSIVE ScanLengths(_, _, _, _, _, _)
ScanLengths(best, t, p, dictionary, length, last) ==
    IF length > last
    THEN best
    ELSE LET substring == SubSeq(t, p + 1, p + length)
             nbest == IF substring \in DOMAIN dictionary
                      THEN ScanCandidates(best, substring, length,
                                          dictionary[substring], 1)
                      ELSE best
         IN ScanLengths(nbest, t, p, dictionary, length + 1, last)

\* LastLength with range(1, len(text) - pos) for range(1, len(text) - pos + 1).
LastLengthShort(t, p) == Len(t) - p - 1

\* The last length range(1, len(text) - pos + 1) yields.
LastLength(t, p) == Len(t) - p

\* find_best_match(text, pos, dictionary); p counts from 0 as in the code.
find_best_match(t, p, dictionary) ==
    LET best == ScanLengths(InitBest, t, p, dictionary, 1, LastLength(t, p))
    IN [match |-> best.match, replacement |-> best.replacement,
        length |-> best.length]

-----------------------------------------------------------------------------
(* Converter.convert *)

\* The truth value of `if match:`: neither None nor the empty string.
Truthy(match) == match.some /\ match.val # <<>>

\* IterStep with pos += len(replacement) for pos += length.
IterStepByReplacement(t, p, dictionary) ==
    LET m == find_best_match(t, p, dictionary)
    IN IF Truthy(m.match)
       THEN [piece |-> m.replacement.val, adv |-> Len(m.replacement.val),
             branch |-> "match"]
       ELSE [piece |-> <<t[p + 1]>>, adv |-> 1, branch |-> "pass"]

\* IterStep with the empty slice text[pos:pos] for text[pos].
IterStepEmptySlice(t, p, dictionary) ==
    LET m == find_best_match(t, p, dictionary)
    IN IF Truthy(m.match)
       THEN [piece |-> m.replacement.val, adv |-> m.length, branch |-> "match"]
       ELSE [piece |-> SubSeq(t, p + 1, p), adv |-> 1, branch |-> "pass"]

\* The body of the while loop at cursor p: the piece appended, the advance
\* of the cursor and the branch taken.
IterStep(t, p, dictionary) ==
    LET m == find_best_match(t, p, dictionary)
    IN IF Truthy(m.match)
       THEN [piece |-> m.replacement.val, adv |-> m.length, branch |-> "match"]
       ELSE [piece |-> <<t[p + 1]>>, adv |-> 1, branch |-> "pass"]

\* ''.join(pieces)
RECURSIVE Join(_)
Join(pieces) ==
    IF pieces = <<>> THEN <<>> ELSE Head(pieces) \o Join(Tail(pieces))

\* The pieces the while loop appends from cursor p on.
RECURSIVE ConvertFrom(_, _, _)
ConvertFrom(t, p, dictionary) ==
    IF p >= Len(t)
    THEN <<>>
    ELSE LET s == IterStep(t, p, dictionary)
         IN <<s.piece>> \o ConvertFrom(t, p + s.adv, dictionary)

\* The modes convert accepts.
ValidModes == {"t2c", "c2t"}

\* The index a valid mode selects, out of the given pair.
SelectIndex(m, fwd, rev) == IF m = "t2c" THEN fwd ELSE rev

\* convert(text, mode) run on its own against the given pair of indexes.
convert(t, m, fwd, rev) == Join(ConvertFrom(t, 0, SelectIndex(m, fwd, rev)))

\* The index the running call c reads: a reference to the store's own.
Dictionary(c) == SelectIndex(mode[c], tw_to_zh, zh_to_tw)

CallInit ==
    /\ pc = [c \in Calls |-> "idle"]
    /\ text = [c \in Calls |-> <<>>]
    /\ mode = [c \in Calls |-> "t2c"]
    /\ pos = [c \in Calls |-> 0]
    /\ result = [c \in Calls |-> <<>>]
    /\ ret = [c \in Calls |-> None]
    /\ branch = [c \in Calls |-> "none"]
    /\ spans = [c \in Calls |-> <<>>]

\* ConvertStart with a final else that selects zh_to_tw instead of raising.
ConvertStartNoRaise(c, t, m) ==
    /\ store = "ready"
    /\ pc[c] = "idle"
    /\ text' = [text EXCEPT ![c] = t]
    /\ mode' = [mode EXCEPT ![c] = m]
    /\ pc' = [pc EXCEPT ![c] = "loop"]
    /\ UNCHANGED <<pos, result, ret, branch, spans>>
    /\ UNCHANGED storeVars

\* converter.convert(t, m) is called on a constructed store (main holds none
\* when __init__ raised): the mode is checked, then result and pos are set.
ConvertStart(c, t, m) ==
    /\ store = "ready"
    /\ pc[c] = "idle"
    /\ text' = [text EXCEPT ![c] = t]
    /\ mode' = [mode EXCEPT ![c] = m]
    /\ pc' = [pc EXCEPT ![c] = IF m \in ValidModes THEN "loop" ELSE "error"]
    /\ UNCHANGED <<pos, result, ret, branch, spans>>
    /\ UNCHANGED storeVars

\* ConvertIter with the matched key popped from the selected index.
ConvertIterPop(c) ==
    /\ pc[c] = "loop"
    /\ pos[c] < Len(text[c])
    /\ LET s == IterStep(text[c], pos[c], Dictionary(c))
           key == SubSeq(text[c], pos[c] + 1, pos[c] + s.adv)
           popped == [k \in DOMAIN Dictionary(c) \ {key} |-> Dictionary(c)[k]]
       IN /\ result' = [result EXCEPT ![c] = Append(@, s.piece)]
          /\ pos' = [pos EXCEPT ![c] = @ + s.adv]
          /\ branch' = [branch EXCEPT ![c] = s.branch]
          /\ spans' = [spans EXCEPT ![c] = Append(@, <<pos[c], s.adv>>)]
          /\ IF mode[c] = "t2c"
             THEN tw_to_zh' = popped /\ zh_to_tw' = zh_to_tw
             ELSE zh_to_tw' = popped /\ tw_to_zh' = tw_to_zh
    /\ UNCHANGED <<pc, text, mode, ret>>
    /\ UNCHANGED <<data, dict_version, entries, store, idx>>

\* One iteration of the while loop.
ConvertIter(c) ==
    /\ pc[c] = "loop"
    /\ pos[c] < Len(text[c])
    /\ LET s == IterStep(text[c], pos[c], Dictionary(c))
       IN /\ result' = [result EXCEPT ![c] = Append(@, s.piece)]
          /\ pos' = [pos EXCEPT ![c] = @ + s.adv]
          /\ branch' = [branch EXCEPT ![c] = s.branch]
          /\ spans' = [spans EXCEPT ![c] = Append(@, <<pos[c], s.adv>>)]
    /\ UNCHANGED <<pc, text, mode, ret>>
    /\ UNCHANGED storeVars

\* The while condition fails: the pieces are joined and returned.
ConvertReturn(c) ==
    /\ pc[c] = "loop"
    /\ pos[c] >= Len(text[c])
    /\ ret' = [ret EXCEPT ![c] = Some(Join(result[c]))]
    /\ pc' = [pc EXCEPT ![c] = "done"]
    /\ UNCHANGED <<text, mode, pos, result, branch, spans>>
    /\ UNCHANGED storeVars

-----------------------------------------------------------------------------
(* Specifications *)

\* One convert call against a store built from any payload.
Init == StoreInit(Payloads) /\ CallInit

Next ==
    \/ InitEntry
    \/ InitReturn
    \/ \E c \in SeqCalls, t \in Texts, m \in Modes : ConvertStart(c, t, m)
    \/ \E c \in SeqCalls : ConvertIter(c)
    \/ \E c \in SeqCalls : ConvertReturn(c)

Spec == Init /\ [][Next]_vars

\* One convert call against a store built from a small payload, the running
\* call being scheduled until it returns.
FairInit == StoreInit(SmallPayloads) /\ CallInit

FairSpec ==
    /\ FairInit
    /\ [][Next]_vars
    /\ \A c \in SeqCalls : WF_vars(ConvertIter(c)) /\ WF_vars(ConvertReturn(c))

\* Two convert calls interleaved against one store.
ConcInit == StoreInit(SmallPayloads) /\ CallInit

ConcNext ==
    \/ InitEntry
    \/ InitReturn
    \/ \E c \in Calls, t \in ConcTexts, m \in Modes : ConvertStart(c, t, m)
    \/ \E c \in Calls : ConvertIter(c)
    \/ \E c \in Calls : ConvertReturn(c)

ConcSpec == ConcInit /\ [][ConcNext]_vars

-----------------------------------------------------------------------------
(* The candidates of a scan position, stated without the scan *)

\* text[pos:pos+length]
Sub(t, p, length) == SubSeq(t, p + 1, p + length)

\* The lengths at which the substring at p is a key of d.
KeyLengths(t, p, d) == {l \in 1..(Len(t) - p) : Sub(t, p, l) \in DOMAIN d}

\* The candidates at p: <<length, place in the key's list>>.
Cands(t, p, d) ==
    UNION {{<<l, j>> : j \in 1..Len(d[Sub(t, p, l)])} : l \in KeyLengths(t, p, d)}

CandReplacement(t, p, d, k) == d[Sub(t, p, k[1])][k[2]][1]

\* len(substring) * 0.1 + base_weight of candidate k, in tenths.
CandScore(t, p, d, k) == k[1] + d[Sub(t, p, k[1])][k[2]][2]

\* Scan order: ascending length, then the key's list order.
Earlier(k1, k2) == k1[1] < k2[1] \/ (k1[1] = k2[1] /\ k1[2] < k2[2])

\* k is the first candidate in scan order among those of maximal score.
FirstBest(t, p, d, k) ==
    /\ k \in Cands(t, p, d)
    /\ \A o \in Cands(t, p, d) :
          /\ CandScore(t, p, d, o) <= CandScore(t, p, d, k)
          /\ CandScore(t, p, d, o) = CandScore(t, p, d, k) => ~Earlier(o, k)

\* The calls that have entered convert's loop.
Started(c) == pc[c] \in {"loop", "done"}

\* The piece the last iteration of call c appended and the cursor it ran at.
LastPiece(c) == result[c][Len(result[c])]

LastStart(c) == spans[c][Len(spans[c])][1]

-----------------------------------------------------------------------------
(* C1 *)

\* C1: at every scan position of every text, against either index,
\* find_best_match returns the substring, replacement and length of the
\* candidate that is first in scan order (ascending length, then the key's
\* list order) among the candidates of maximal score; a later candidate of
\* equal score never replaces an earlier one.
C1_FirstBestWins ==
    \A c \in Calls : Started(c) =>
        \A d \in {tw_to_zh, zh_to_tw}, p \in 0..(Len(text[c]) - 1) :
            Cands(text[c], p, d) # {} =>
                \E k \in Cands(text[c], p, d) :
                    /\ FirstBest(text[c], p, d, k)
                    /\ find_best_match(text[c], p, d) =
                          [match |-> Some(Sub(text[c], p, k[1])),
                           replacement |-> Some(CandReplacement(text[c], p, d, k)),
                           length |-> k[1]]

\* An iteration has run at a position where two candidates with different
\* replacements tie on the maximal score, and appended the earlier one's.
C1_Witness ==
    \E c \in Calls :
        /\ Started(c) /\ spans[c] # <<>>
        /\ LET t == text[c]
               p == LastStart(c)
               d == Dictionary(c)
           IN \E k1, k2 \in Cands(t, p, d) :
                 /\ FirstBest(t, p, d, k1)
                 /\ Earlier(k1, k2)
                 /\ CandScore(t, p, d, k2) = CandScore(t, p, d, k1)
                 /\ CandReplacement(t, p, d, k2) # CandReplacement(t, p, d, k1)
                 /\ LastPiece(c) = CandReplacement(t, p, d, k1)

-----------------------------------------------------------------------------
(* C2 *)

\* What C2 says of a step in which call c runs a loop iteration.
C2_Iteration(c) ==
    LET t == text[c]
        p == pos[c]
        d == Dictionary(c)
    IN IF KeyLengths(t, p, d) # {}
       THEN /\ branch'[c] = "match"
            /\ \E k \in Cands(t, p, d) :
                  /\ FirstBest(t, p, d, k)
                  /\ result'[c] = Append(result[c], CandReplacement(t, p, d, k))
                  /\ pos'[c] = p + k[1]
       ELSE /\ branch'[c] = "pass"
            /\ result'[c] = Append(result[c], <<t[p + 1]>>)
            /\ pos'[c] = p + 1

\* A call that returns against an index without entries returns its text.
C2_EmptyIndex ==
    \A c \in Calls :
        pc[c] = "done" /\ Dictionary(c) = <<>> => ret[c] = Some(text[c])

\* C2: in every loop iteration, if some substring at the cursor is a key of
\* the selected index, the replacement of the best match is appended and the
\* cursor advances by the match's length, whatever the weights' sign and even
\* if the replacement is empty; the character at the cursor is passed through
\* and the cursor advances by 1 exactly when no substring is a key.  With an
\* index without entries convert returns the text unchanged.
C2_MatchOrPassthrough ==
    /\ [][\A c \in Calls : spans'[c] # spans[c] => C2_Iteration(c)]_vars
    /\ []C2_EmptyIndex

\* An iteration has matched a key of negative weight and negative score and
\* appended its empty replacement.
C2_Witness ==
    \E c \in Calls :
        /\ Started(c) /\ spans[c] # <<>>
        /\ branch[c] = "match"
        /\ LastPiece(c) = <<>>
        /\ \E k \in Cands(text[c], LastStart(c), Dictionary(c)) :
              /\ FirstBest(text[c], LastStart(c), Dictionary(c), k)
              /\ CandScore(text[c], LastStart(c), Dictionary(c), k) < 0

-----------------------------------------------------------------------------
(* C3 *)

\* The spans consumed so far start at 0, follow one another without overlap
\* or gap, and end at the cursor.
Contiguous(c) ==
    /\ \A i \in 1..Len(spans[c]) :
          spans[c][i][1] = (IF i = 1 THEN 0
                            ELSE spans[c][i - 1][1] + spans[c][i - 1][2])
    /\ pos[c] = (IF spans[c] = <<>> THEN 0
                 ELSE LastStart(c) + spans[c][Len(spans[c])][2])

C3_Bounds ==
    \A c \in Calls :
        /\ 0 <= pos[c] /\ pos[c] <= Len(text[c])
        /\ Len(spans[c]) <= Len(text[c])
        /\ Contiguous(c)
        /\ pc[c] = "done" => pos[c] = Len(text[c])

\* C3: for every text and valid mode convert terminates: each iteration
\* advances the cursor by at least 1 and at most len(text) - pos, the cursor
\* stays within 0..len(text), the loop runs at most len(text) times and exits
\* with pos = len(text), and the consumed spans cover the input contiguously.
C3_Terminates ==
    /\ []C3_Bounds
    /\ [][\A c \in Calls : spans'[c] # spans[c] =>
             /\ pos'[c] - pos[c] >= 1
             /\ pos'[c] - pos[c] <= Len(text[c]) - pos[c]]_vars
    /\ \A c \in Calls : pc[c] = "loop" ~> pc[c] = "done"

\* A call has returned after consuming a text of the greatest length in
\* more than one iteration, one of them a match of more than one character.
C3_Witness ==
    \E c \in Calls :
        /\ pc[c] = "done"
        /\ Len(text[c]) = MaxLen
        /\ Len(spans[c]) > 1
        /\ \E i \in 1..Len(spans[c]) : spans[c][i][2] > 1

-----------------------------------------------------------------------------
(* C4 *)

\* No replacement of the index is the empty string.
NoEmptyReplacement(d) ==
    \A k \in DOMAIN d : \A j \in 1..Len(d[k]) : d[k][j][1] # <<>>

\* C4 as stated: the returned string has at least as many characters as
\* there were pieces appended.
C4_Original ==
    \A c \in Calls : pc[c] = "done" => Len(ret[c].val) >= Len(result[c])

\* C4, amended: when no replacement of the selected index is the empty
\* string, the returned string has at least as many characters as there were
\* pieces appended.
C4_LengthAtLeastSegments ==
    \A c \in Calls :
        pc[c] = "done" /\ NoEmptyReplacement(Dictionary(c)) =>
            Len(ret[c].val) >= Len(result[c])

\* A call has returned more characters than pieces, from a match and a
\* passthrough, against an index without empty replacements.
C4_Witness ==
    \E c \in Calls :
        /\ pc[c] = "done"
        /\ NoEmptyReplacement(Dictionary(c))
        /\ Len(result[c]) >= 2
        /\ Len(ret[c].val) > Len(result[c])

-----------------------------------------------------------------------------
(* C5 *)

\* C5: a convert call with a mode other than 't2c' and 'c2t' ends in the
\* ValueError, for every text: its loop is never entered, nothing is
\* appended, no cursor moves and no string is returned.
C5_UnsupportedMode ==
    \A c \in Calls :
        pc[c] # "idle" /\ mode[c] \notin ValidModes =>
            /\ pc[c] = "error"
            /\ result[c] = <<>>
            /\ spans[c] = <<>>
            /\ pos[c] = 0
            /\ ret[c] = None

\* A call with an unrecognised mode and a text that a valid mode would have
\* converted has raised.
C5_Witness ==
    \E c \in Calls :
        /\ pc[c] = "error"
        /\ mode[c] = "x2y"
        /\ text[c] # <<>>
        /\ convert(text[c], "t2c", tw_to_zh, zh_to_tw) # text[c]

-----------------------------------------------------------------------------
(* C6 *)

\* The places of the entries that lack '台文' or '華文'.
Malformed == {i \in 1..Len(entries) : ~WellFormed(entries[i])}

\* C6: building from an entries list with an entry that lacks '台文' or
\* '華文' fails with KeyError at the first such entry: no entry is skipped,
\* the store never becomes available and no convert call runs against it,
\* whatever was inserted before the bad entry; an entry that lacks only the
\* weight is no error.
C6_MalformedEntryFails ==
    /\ Malformed # {} => store # "ready" /\ \A c \in Calls : pc[c] = "idle"
    /\ store = "failed" => idx \in Malformed /\ \A i \in Malformed : idx <= i
    /\ store = "building" => \A i \in Malformed : idx <= i
    /\ Malformed = {} => store # "failed"

\* The build has failed at its second entry, after it inserted a first entry
\* that has no weight.
C6_Witness ==
    /\ store = "failed"
    /\ idx = 2
    /\ "weight" \notin DOMAIN entries[1]
    /\ tw_to_zh # <<>>

-----------------------------------------------------------------------------
(* C7 *)

\* The pairs the entries with key k give, in the order of the entries list;
\* kf names the key's field and vf the value's.
PairsOf(es, kf, vf, k) ==
    LET sel == SelectSeq(es, LAMBDA e : e[kf] = k)
    IN [i \in 1..Len(sel) |->
           <<sel[i][vf], IF "weight" \in DOMAIN sel[i] THEN sel[i].weight ELSE 0>>]

\* index holds exactly the pairs of es, keyed by kf.
IndexOf(index, es, kf, vf) ==
    /\ DOMAIN index = {es[i][kf] : i \in 1..Len(es)}
    /\ \A k \in DOMAIN index :
          index[k] # <<>> /\ index[k] = PairsOf(es, kf, vf, k)

\* C7: after a successful build tw_to_zh[source] holds (target, w) and
\* zh_to_tw[target] holds (source, w) for every entry, w being the entry's
\* weight or 0.0 when it has none; the indexes hold no other pair, every key
\* maps to a non-empty list in entry-list order, and a payload without
\* 'entries' gives two empty indexes.
C7_IndexesMatchEntries ==
    store = "ready" =>
        /\ IndexOf(tw_to_zh, entries, "tw", "cn")
        /\ IndexOf(zh_to_tw, entries, "cn", "tw")
        /\ "entries" \notin DOMAIN data => tw_to_zh = <<>> /\ zh_to_tw = <<>>

\* A build has succeeded on two entries that share a key, one of them
\* without a weight.
C7_Witness ==
    /\ store = "ready"
    /\ \E k \in DOMAIN tw_to_zh : Len(tw_to_zh[k]) = 2
    /\ \E i \in 1..Len(entries) : "weight" \notin DOMAIN entries[i]

-----------------------------------------------------------------------------
(* C8 *)

\* The entries lists that are permutations of es.
Reorderings(es) ==
    {[i \in 1..Len(es) |-> es[f[i]]] :
        f \in {g \in [1..Len(es) -> 1..Len(es)] :
                 \A i, j \in 1..Len(es) : g[i] = g[j] => i = j}}

\* What call c returns against the store built from es.
ConvertOn(c, es) ==
    LET b == BuildFrom(<<>>, <<>>, es, 1)
    IN convert(text[c], mode[c], b.fwd, b.rev)

\* No two alternatives under one key of d have equal scores and different
\* replacements.
NoTiedAlternatives(d) ==
    \A k \in DOMAIN d : \A i, j \in 1..Len(d[k]) :
        calculate_weight(k, d[k][i][2]) = calculate_weight(k, d[k][j][2])
            => d[k][i][1] = d[k][j][1]

\* C8 as stated: convert returns the same string against the stores built
\* from any permutation of the entries list.
C8_Original ==
    \A c \in Calls : pc[c] = "done" =>
        \A es \in Reorderings(entries) : ConvertOn(c, es) = ret[c].val

\* C8, amended: convert returns the same string against the stores built
\* from any permutation of the entries list, provided no two alternatives
\* under one key of the selected index have equal scores and different
\* replacements.
C8_OrderIndependentWithoutTies ==
    \A c \in Calls :
        pc[c] = "done" /\ NoTiedAlternatives(Dictionary(c)) =>
            \A es \in Reorderings(entries) : ConvertOn(c, es) = ret[c].val

\* A call has returned a match on a key that has two alternatives of
\* different scores and different replacements.
C8_Witness ==
    \E c \in Calls :
        /\ pc[c] = "done"
        /\ NoTiedAlternatives(Dictionary(c))
        /\ \E i \in 1..Len(spans[c]) :
              LET key == Sub(text[c], spans[c][i][1], spans[c][i][2])
              IN /\ key \in DOMAIN Dictionary(c)
                 /\ Len(Dictionary(c)[key]) = 2
                 /\ Dictionary(c)[key][1][1] # Dictionary(c)[key][2][1]

-----------------------------------------------------------------------------
(* C9 *)

\* Call c's own variables are left as they are.
CallUnchanged(c) ==
    /\ pc'[c] = pc[c] /\ text'[c] = text[c] /\ mode'[c] = mode[c]
    /\ pos'[c] = pos[c] /\ result'[c] = result[c] /\ ret'[c] = ret[c]
    /\ branch'[c] = branch[c] /\ spans'[c] = spans[c]

\* Once built, the store is left as it is.
C9_StoreUnchanged ==
    store = "ready" =>
        UNCHANGED <<data, dict_version, entries, tw_to_zh, zh_to_tw, store>>

\* A step writes the variables of one call at most.
C9_OwnVariablesOnly ==
    \A c1, c2 \in Calls : c1 # c2 => CallUnchanged(c1) \/ CallUnchanged(c2)

\* A call that has returned has returned what it returns run alone.
C9_SameAsAlone ==
    \A c \in Calls :
        pc[c] = "done" =>
            ret[c] = Some(convert(text[c], mode[c], tw_to_zh, zh_to_tw))

\* C9: after the build no step of a convert call, successful or failing,
\* changes tw_to_zh, zh_to_tw, entries or dict_version, and each step writes
\* only its own call's cursor and buffer; so under every interleaving of the
\* iterations of two calls each returns what it returns when run alone.
C9_NoSideEffects ==
    /\ [][C9_StoreUnchanged /\ C9_OwnVariablesOnly]_vars
    /\ []C9_SameAsAlone

\* One call has returned a converted text while the other, on another text,
\* is between two iterations of its loop.
C9_Witness ==
    \E c1, c2 \in Calls :
        /\ c1 # c2
        /\ pc[c1] = "done" /\ ret[c1] # Some(text[c1])
        /\ pc[c2] = "loop" /\ 0 < pos[c2] /\ pos[c2] < Len(text[c2])
        /\ text[c1] # text[c2]
        /\ result[c2] # <<<<text[c2][1]>>>>

-----------------------------------------------------------------------------
(* C10 *)

\* The length of the longest key of d, 0 when d has none.
MaxKeyLen(d) ==
    IF DOMAIN d = {} THEN 0
    ELSE CHOOSE n \in {Len(k) : k \in DOMAIN d} : \A k \in DOMAIN d : Len(k) <= n

\* find_best_match probing the lengths 1..min(len(text) - pos, MaxKeyLen).
find_best_match_bounded(t, p, dictionary) ==
    LET last == IF MaxKeyLen(dictionary) < Len(t) - p
                THEN MaxKeyLen(dictionary) ELSE Len(t) - p
        best == ScanLengths(InitBest, t, p, dictionary, 1, last)
    IN [match |-> best.match, replacement |-> best.replacement,
        length |-> best.length]

\* The pieces convert appends from cursor p on with the bounded scan.
RECURSIVE ConvertFromBounded(_, _, _)
ConvertFromBounded(t, p, dictionary) ==
    IF p >= Len(t)
    THEN <<>>
    ELSE LET m == find_best_match_bounded(t, p, dictionary)
         IN IF Truthy(m.match)
            THEN <<m.replacement.val>>
                     \o ConvertFromBounded(t, p + m.length, dictionary)
            ELSE <<<<t[p + 1]>>>> \o ConvertFromBounded(t, p + 1, dictionary)

\* C10: bounding the probed lengths by the longest key of the index changes
\* no selection: at every position of every text, against either index, the
\* bounded scan returns what find_best_match returns, and convert with the
\* bounded scan returns the string convert returns.
C10_BoundedScanEquivalent ==
    \A c \in Calls : Started(c) =>
        /\ \A d \in {tw_to_zh, zh_to_tw}, p \in 0..(Len(text[c]) - 1) :
              find_best_match_bounded(text[c], p, d) = find_best_match(text[c], p, d)
        /\ pc[c] = "done" =>
              Join(ConvertFromBounded(text[c], 0, Dictionary(c))) = ret[c].val

\* A call has returned after a match on a longest key that is shorter than
\* the rest of the text was, so that the bound cut the scan.
C10_Witness ==
    \E c \in Calls :
        /\ pc[c] = "done"
        /\ \E i \in 1..Len(spans[c]) :
              /\ branch[c] # "none"
              /\ Sub(text[c], spans[c][i][1], spans[c][i][2]) \in DOMAIN Dictionary(c)
              /\ spans[c][i][2] = MaxKeyLen(Dictionary(c))
              /\ spans[c][i][2] >= 2
              /\ MaxKeyLen(Dictionary(c)) < Len(text[c]) - spans[c][i][1]

=============================================================================
